---- MODULE Spec2Model ----
(***************************************************************************)
(* Model of the bulk command batcher: ConsoleInput (block-depth gate),     *)
(* BatchCommandProcessor (batching engine and publisher) and the two       *)
(* Output subscribers ConsoleOutput and ReportWriter, as written in        *)
(* src/CommandProcessor.h and driven by RunBulk in src/bulk.cxx.           *)
(***************************************************************************)
EXTENDS Integers, Sequences, FiniteSets, TLC

\* ------------------------------------------------------------------ bounds
MaxLines == 6      \* lines RunBulk reads in one run
MaxCalls == 1      \* ProcessCommand calls made directly on the engine in one run
MaxBulk == 3       \* largest positive bulk size tried
MaxSubs == 2       \* longest subscriber list

\* --------------------------------------------------------------- constants
nullptr == 0                       \* the null Output*
Handles == {1, 2}                  \* the Output objects: 1 ConsoleOutput, 2 ReportWriter
Kind(o) == IF o = 1 THEN "ConsoleOutput" ELSE "ReportWriter"
CmdTexts == {"cmd"}                \* ordinary (non-marker) line texts
LineTexts == CmdTexts \cup {"{", "}"}
\* bulk sizes main() lets through: atoi(argv[1]) # 0, negative values included
BulkSizes == (1..MaxBulk) \cup {-1}
\* what a build can do when the code runs into undefined behaviour
UBOutcomes == {"crash", "continue"}

VARIABLES
  m_bulkSize,      \* BatchCommandProcessor::m_bulkSize
  m_blockForced,   \* BatchCommandProcessor::m_blockForced
  m_commands,      \* BatchCommandProcessor::m_commands (the pending batch)
  m_subscribers,   \* CommandProcessor::m_subscribers
  m_blockDepth,    \* ConsoleInput::m_blockDepth
  snapshot,        \* Output::m_commands of each Output object
  rendered,        \* per Output object, the commands it has written out, in order
  input,           \* the Commands constructed so far, in order
  calls,           \* the calls the last operation made on subscribers, in order
  op,              \* the last operation and its argument
  status           \* "running", "thrown", "crashed", "terminated", "destroyed"

vars == <<m_bulkSize, m_blockForced, m_commands, m_subscribers, m_blockDepth,
          snapshot, rendered, input, calls, op, status>>

\* Command{text, timeStamp}; the clock ticks once per Command constructed
Command(text, ts) == [text |-> text, timeStamp |-> ts]

\* static_cast<size_t>(m_bulkSize) <= size: a negative int converts to a
\* value above 2^63, which no vector size reaches
SizeReached(size, bulkSize) == IF bulkSize < 0 THEN FALSE ELSE size >= bulkSize

\* ---------------------------------------------------- the engine as a value
\* The operations below are functions from engine state to engine state, so
\* that a handler can be composed of the calls it makes.
Engine ==
  [m_bulkSize |-> m_bulkSize, m_blockForced |-> m_blockForced,
   m_commands |-> m_commands, m_subscribers |-> m_subscribers,
   snapshot |-> snapshot, rendered |-> rendered, calls |-> <<>>,
   status |-> "running"]

\* ConsoleOutput::update / ReportWriter::update: m_commands = commands
Update(e, o) ==
  [e EXCEPT !.snapshot[o] = e.m_commands,
            !.calls = Append(@, [call |-> "update", to |-> o, arg |-> e.m_commands])]

RECURSIVE NotifyFrom(_, _)
NotifyFrom(e, i) ==
  IF i > Len(e.m_subscribers) THEN e
  ELSE LET s == e.m_subscribers[i]
       IN NotifyFrom(IF s # nullptr THEN Update(e, s) ELSE e, i + 1)

\* BatchCommandProcessor::notify
notify(e) == NotifyFrom(e, 1)

\* mutant: the pending batch is not cleared after a closure
ClearBatch_KeepsBatch(e) == notify(e)

\* BatchCommandProcessor::ClearBatch
ClearBatch(e) == notify([e EXCEPT !.m_commands = <<>>])

\* ConsoleOutput::ProcessCommand / ReportWriter::ProcessCommand.
\* BULK + Join(m_commands) allocates and may throw (o \in fails) before any
\* output: the call is recorded as "throw". ReportWriter::GetFilename reads
\* m_commands[0]: undefined on an empty snapshot, the build either crashes
\* there or writes a file of arbitrary name.
Render(e, o, fails, ub) ==
  IF o \in fails
  THEN [e EXCEPT !.status = "thrown",
                 !.calls = Append(@, [call |-> "throw", to |-> o, arg |-> e.snapshot[o]])]
  ELSE LET called == [e EXCEPT !.calls =
                        Append(@, [call |-> "render", to |-> o, arg |-> e.snapshot[o]])]
       IN IF Kind(o) = "ReportWriter" /\ e.snapshot[o] = <<>> /\ ub = "crash"
          THEN [called EXCEPT !.status = "crashed"]
          ELSE [called EXCEPT !.rendered[o] = @ \o e.snapshot[o]]

RECURSIVE DumpFrom(_, _, _, _)
DumpFrom(e, i, fails, ub) ==
  IF e.status # "running" \/ i > Len(e.m_subscribers) THEN e
  ELSE DumpFrom(Render(e, e.m_subscribers[i], fails, ub), i + 1, fails, ub)

\* mutant: the closure renders without looking at the batch
DumpBatch_NoEmptyCheck(e, fails, ub) ==
  LET e1 == DumpFrom(e, 1, fails, ub)
  IN IF e1.status = "running" THEN ClearBatch(e1) ELSE e1

\* BatchCommandProcessor::DumpBatch
DumpBatch(e, fails, ub) ==
  LET e1 == IF e.m_commands # <<>> THEN DumpFrom(e, 1, fails, ub) ELSE e
  IN IF e1.status = "running" THEN ClearBatch(e1) ELSE e1

\* mutant: the block start only sets the flag
StartBlock_FlagOnly(e, fails, ub) == [e EXCEPT !.m_blockForced = TRUE]

\* BatchCommandProcessor::StartBlock
StartBlock(e, fails, ub) == DumpBatch([e EXCEPT !.m_blockForced = TRUE], fails, ub)

\* mutant: the block end only resets the flag
FinishBlock_FlagOnly(e, fails, ub) == [e EXCEPT !.m_blockForced = FALSE]

\* BatchCommandProcessor::FinishBlock
FinishBlock(e, fails, ub) == DumpBatch([e EXCEPT !.m_blockForced = FALSE], fails, ub)

\* mutant: the size test ignores m_blockForced
ProcessCommand_IgnoresBlock(e, command, fails, ub) ==
  LET e1 == notify([e EXCEPT !.m_commands = Append(@, command)])
  IN IF SizeReached(Len(e1.m_commands), e1.m_bulkSize)
     THEN DumpBatch(e1, fails, ub)
     ELSE e1

\* mutant: the size test is > instead of >=
ProcessCommand_SizeOffByOne(e, command, fails, ub) ==
  LET e1 == notify([e EXCEPT !.m_commands = Append(@, command)])
  IN IF ~e1.m_blockForced /\ SizeReached(Len(e1.m_commands), e1.m_bulkSize + 1)
     THEN DumpBatch(e1, fails, ub)
     ELSE e1

\* BatchCommandProcessor::ProcessCommand
ProcessCommand(e, command, fails, ub) ==
  LET e1 == notify([e EXCEPT !.m_commands = Append(@, command)])
  IN IF ~e1.m_blockForced /\ SizeReached(Len(e1.m_commands), e1.m_bulkSize)
     THEN DumpBatch(e1, fails, ub)
     ELSE e1

\* mutant: a handle already in the list is not appended again
subscribe_NoDuplicates(e, o) ==
  IF o # nullptr /\ \A i \in 1..Len(e.m_subscribers) : e.m_subscribers[i] # o
  THEN [e EXCEPT !.m_subscribers = Append(@, o)] ELSE e

\* mutant: subscribe hands the pending batch to the new subscriber
subscribe_AndUpdate(e, o) ==
  IF o # nullptr
  THEN Update([e EXCEPT !.m_subscribers = Append(@, o)], o)
  ELSE e

\* BatchCommandProcessor::subscribe
subscribe(e, o) ==
  IF o # nullptr THEN [e EXCEPT !.m_subscribers = Append(@, o)] ELSE e

\* std::find over [1, size]: the first position holding o, size + 1 if none
Find(buf, size, o) ==
  IF \E i \in 1..size : buf[i] = o
  THEN CHOOSE i \in 1..size : buf[i] = o /\ \A j \in 1..(i - 1) : buf[j] # o
  ELSE size + 1

RECURSIVE RemoveFrom(_, _, _, _, _)
RemoveFrom(buf, size, result, first, o) ==
  IF first > size THEN [buf |-> buf, pos |-> result]
  ELSE IF buf[first] # o
       THEN RemoveFrom([buf EXCEPT ![result] = buf[first]], size, result + 1, first + 1, o)
       ELSE RemoveFrom(buf, size, result, first + 1, o)

\* std::remove(begin, end, o): shifts the kept elements to the front and
\* returns the new logical end; the slots from there on keep what they held
StdRemove(buf, size, o) ==
  LET first == Find(buf, size, o)
  IN IF first > size THEN [buf |-> buf, pos |-> first]
     ELSE RemoveFrom(buf, size, first, first + 1, o)

\* std::vector::erase(position) for a position before end(): ONE element goes
VecErase(buf, size, pos) ==
  [buf |-> [i \in 1..Len(buf) |-> IF i >= pos /\ i < size THEN buf[i + 1] ELSE buf[i]],
   size |-> size - 1]

\* BatchCommandProcessor::unSubscribe on the vector's storage v = [buf, size,
\* status]. When o is absent std::remove returns end() and erase(end()) is
\* undefined: the build crashes, or decrements the end pointer and so drops
\* the last element (on an empty vector that leaves a corrupt vector, counted
\* as a crash).
unSubscribeRaw(v, o, ub) ==
  IF o = nullptr THEN v
  ELSE LET r == StdRemove(v.buf, v.size, o)
       IN IF r.pos <= v.size
          THEN LET x == VecErase(r.buf, v.size, r.pos)
               IN [buf |-> x.buf, size |-> x.size, status |-> v.status]
          ELSE IF ub = "crash" \/ v.size = 0
               THEN [v EXCEPT !.status = "crashed"]
               ELSE [v EXCEPT !.size = @ - 1]

\* BatchCommandProcessor::unSubscribe
unSubscribe(e, o, ub) ==
  LET v == unSubscribeRaw([buf |-> e.m_subscribers, size |-> Len(e.m_subscribers),
                           status |-> e.status], o, ub)
  IN [e EXCEPT !.m_subscribers = SubSeq(v.buf, 1, v.size), !.status = v.status]

\* the range-for of the destructor: begin and end are taken once, then every
\* position i in [1, last] is read and unsubscribed while the vector shrinks.
\* Reading a position past the current end is undefined: a checked build
\* aborts, any other reads what the storage still holds.
RECURSIVE DtorLoop(_, _, _, _)
DtorLoop(v, i, last, ub) ==
  IF v.status # "running" \/ i > last THEN v
  ELSE IF i > v.size /\ ub = "crash" THEN [v EXCEPT !.status = "crashed"]
  ELSE DtorLoop(unSubscribeRaw(v, v.buf[i], ub), i + 1, last, ub)

\* mutant: the destructor flushes whether or not a block is open
Destructor_AlwaysFlushes(e, fails, ub) ==
  LET e1 == DumpBatch(e, fails, ub)
      e2 == IF e1.status = "thrown" THEN [e1 EXCEPT !.status = "terminated"] ELSE e1
  IN IF e2.status # "running" THEN e2
     ELSE LET v == DtorLoop([buf |-> e2.m_subscribers, size |-> Len(e2.m_subscribers),
                             status |-> "running"], 1, Len(e2.m_subscribers), ub)
          IN [e2 EXCEPT !.m_subscribers = SubSeq(v.buf, 1, v.size),
                        !.status = IF v.status = "running" THEN "destroyed" ELSE v.status]

\* BatchCommandProcessor::~BatchCommandProcessor; an exception leaving a
\* destructor ends the process (std::terminate)
Destructor(e, fails, ub) ==
  LET e1 == IF ~e.m_blockForced THEN DumpBatch(e, fails, ub) ELSE e
      e2 == IF e1.status = "thrown" THEN [e1 EXCEPT !.status = "terminated"] ELSE e1
  IN IF e2.status # "running" THEN e2
     ELSE LET v == DtorLoop([buf |-> e2.m_subscribers, size |-> Len(e2.m_subscribers),
                             status |-> "running"], 1, Len(e2.m_subscribers), ub)
          IN [e2 EXCEPT !.m_subscribers = SubSeq(v.buf, 1, v.size),
                        !.status = IF v.status = "running" THEN "destroyed" ELSE v.status]

\* mutant: every "{" starts a block and every "}" finishes one
ConsoleInputProcessCommand_EveryBrace(depth, e, command, fails, ub) ==
  IF command.text = "{"
  THEN [depth |-> depth + 1, e |-> StartBlock(e, fails, ub)]
  ELSE IF command.text = "}"
  THEN [depth |-> depth - 1, e |-> FinishBlock(e, fails, ub)]
  ELSE [depth |-> depth, e |-> ProcessCommand(e, command, fails, ub)]

\* mutant: "}" tests the depth before decrementing it
ConsoleInputProcessCommand_PostDecrement(depth, e, command, fails, ub) ==
  IF command.text = "{"
  THEN [depth |-> depth + 1,
        e |-> IF depth = 0 THEN StartBlock(e, fails, ub) ELSE e]
  ELSE IF command.text = "}"
  THEN [depth |-> depth - 1,
        e |-> IF depth = 0 THEN FinishBlock(e, fails, ub) ELSE e]
  ELSE [depth |-> depth, e |-> ProcessCommand(e, command, fails, ub)]

\* ConsoleInput::ProcessCommand (m_nextCommandProcessor is the engine): the
\* new depth and the engine after the forwarded call
ConsoleInputProcessCommand(depth, e, command, fails, ub) ==
  IF command.text = "{"
  THEN [depth |-> depth + 1,
        e |-> IF depth = 0 THEN StartBlock(e, fails, ub) ELSE e]
  ELSE IF command.text = "}"
  THEN [depth |-> depth - 1,
        e |-> IF depth - 1 = 0 THEN FinishBlock(e, fails, ub) ELSE e]
  ELSE [depth |-> depth, e |-> ProcessCommand(e, command, fails, ub)]

\* ----------------------------------------------------------------- actions
Init ==
  /\ m_bulkSize \in BulkSizes
  /\ m_blockForced = FALSE
  /\ m_commands = <<>>
  /\ m_subscribers = <<>>
  /\ m_blockDepth = 0
  /\ snapshot = [o \in Handles |-> <<>>]
  /\ rendered = [o \in Handles |-> <<>>]
  /\ input = <<>>
  /\ calls = <<>>
  /\ op = [name |-> "init", arg |-> nullptr]
  /\ status = "running"

SetEngine(e) ==
  /\ m_blockForced' = e.m_blockForced
  /\ m_commands' = e.m_commands
  /\ m_subscribers' = e.m_subscribers
  /\ snapshot' = e.snapshot
  /\ rendered' = e.rendered
  /\ calls' = e.calls
  /\ status' = e.status
  /\ UNCHANGED m_bulkSize

\* a caller invokes BatchCommandProcessor::ProcessCommand with a new Command
CallProcessCommand(text, fails, ub) ==
  /\ status = "running"
  /\ Len(input) < MaxLines
  /\ LET command == Command(text, Len(input) + 1)
     IN /\ SetEngine(ProcessCommand(Engine, command, fails, ub))
        /\ input' = Append(input, command)
        /\ op' = [name |-> "ProcessCommand", arg |-> command]
  /\ UNCHANGED m_blockDepth

CallStartBlock(fails, ub) ==
  /\ status = "running"
  /\ SetEngine(StartBlock(Engine, fails, ub))
  /\ op' = [name |-> "StartBlock", arg |-> nullptr]
  /\ UNCHANGED <<m_blockDepth, input>>

CallFinishBlock(fails, ub) ==
  /\ status = "running"
  /\ SetEngine(FinishBlock(Engine, fails, ub))
  /\ op' = [name |-> "FinishBlock", arg |-> nullptr]
  /\ UNCHANGED <<m_blockDepth, input>>

CallSubscribe(o) ==
  /\ status = "running"
  /\ Len(m_subscribers) < MaxSubs
  /\ SetEngine(subscribe(Engine, o))
  /\ op' = [name |-> "subscribe", arg |-> o]
  /\ UNCHANGED <<m_blockDepth, input>>

CallUnSubscribe(o, ub) ==
  /\ status = "running"
  /\ SetEngine(unSubscribe(Engine, o, ub))
  /\ op' = [name |-> "unSubscribe", arg |-> o]
  /\ UNCHANGED <<m_blockDepth, input>>

\* ConsoleOutput / ReportWriter constructor: processor->subscribe(this); each
\* object is constructed once, before RunBulk reads its first line
ConstructOutput(o) ==
  /\ input = <<>>
  /\ op.name \in {"init", "subscribe"}
  /\ \A i \in 1..Len(m_subscribers) : m_subscribers[i] # o
  /\ CallSubscribe(o)

\* the body of RunBulk's loop: one line becomes a Command handed to ConsoleInput
ReadLine(text, fails, ub) ==
  /\ status = "running"
  /\ Len(input) < MaxLines
  /\ LET command == Command(text, Len(input) + 1)
         r == ConsoleInputProcessCommand(m_blockDepth, Engine, command, fails, ub)
     IN /\ SetEngine(r.e)
        /\ m_blockDepth' = r.depth
        /\ input' = Append(input, command)
        /\ op' = [name |-> "ReadLine", arg |-> command]

\* end of input (or unwinding after an exception): the engine is destroyed
Teardown(fails, ub) ==
  /\ status \in {"running", "thrown"}
  /\ SetEngine(Destructor(Engine, fails, ub))
  /\ op' = [name |-> "Teardown", arg |-> nullptr]
  /\ UNCHANGED <<m_blockDepth, input>>

\* any interleaving of the engine's public operations
Next ==
  \E ub \in UBOutcomes :
    \/ \E text \in CmdTexts : Len(input) < MaxCalls /\ CallProcessCommand(text, {}, ub)
    \/ CallStartBlock({}, ub)
    \/ CallFinishBlock({}, ub)
    \/ \E o \in Handles \cup {nullptr} : CallSubscribe(o)
    \/ \E o \in Handles \cup {nullptr} : CallUnSubscribe(o, ub)
    \/ Teardown({}, ub)

Spec == Init /\ [][Next]_vars

\* the engine's operations called directly, subscribers registered at construction
NextEngine ==
  \E ub \in UBOutcomes :
    \/ \E o \in Handles : ConstructOutput(o)
    \/ \E text \in CmdTexts : CallProcessCommand(text, {}, ub)
    \/ CallStartBlock({}, ub)
    \/ CallFinishBlock({}, ub)
    \/ Teardown({}, ub)

SpecEngine == Init /\ [][NextEngine]_vars

\* the program as RunBulk wires it: lines through ConsoleInput, then teardown
NextGate ==
  \E ub \in UBOutcomes :
    \/ \E o \in Handles : ConstructOutput(o)
    \/ \E text \in LineTexts : ReadLine(text, {}, ub)
    \/ Teardown({}, ub)

SpecGate == Init /\ [][NextGate]_vars

\* ------------------------------------------------------------ the program
\* argv[1] is a C string, modelled as the sequence of its characters
Digits == <<"0", "1", "2", "3", "4", "5", "6", "7", "8", "9">>
IsDigit(c) == \E i \in 1..Len(Digits) : Digits[i] = c
DigitVal(c) == (CHOOSE i \in 1..Len(Digits) : Digits[i] = c) - 1

\* atoi's digit loop: stops at the first character that is not a digit
RECURSIVE AtoiDigits(_, _, _)
AtoiDigits(s, i, acc) ==
  IF i > Len(s) \/ ~IsDigit(s[i]) THEN acc
  ELSE AtoiDigits(s, i + 1, acc * 10 + DigitVal(s[i]))

\* position of the first character of s, from i on, that is not a blank
RECURSIVE SkipBlanks(_, _)
SkipBlanks(s, i) == IF i <= Len(s) /\ s[i] = " " THEN SkipBlanks(s, i + 1) ELSE i

\* atoi(argv[1]): leading blanks, an optional sign, then digits; text with no
\* leading number gives 0 (the arguments used here are too short to overflow)
atoi(s) ==
  LET i == SkipBlanks(s, 1)
      signed == i <= Len(s) /\ s[i] \in {"-", "+"}
      n == AtoiDigits(s, IF signed THEN i + 1 ELSE i, 0)
  IN IF signed /\ s[i] = "-" THEN 0 - n ELSE n

\* the texts given as argv[1]: 0..MaxBulk, a negative number, text with no
\* number in it, a number followed by text, a number after a blank
ArgTexts ==
  {<<Digits[n + 1]>> : n \in 0..MaxBulk}
    \cup {<<"-", "1">>, <<"a">>, <<"2", "x">>, <<" ", "1">>, <<"-">>, <<>>}
\* argv without argv[0]: no argument at all, or one
Argvs == {<<>>} \cup {<<t>> : t \in ArgTexts}

\* the process at the entry of main: no engine exists yet
InitMain ==
  /\ m_bulkSize = 0
  /\ m_blockForced = FALSE
  /\ m_commands = <<>>
  /\ m_subscribers = <<>>
  /\ m_blockDepth = 0
  /\ snapshot = [o \in Handles |-> <<>>]
  /\ rendered = [o \in Handles |-> <<>>]
  /\ input = <<>>
  /\ calls = <<>>
  /\ op \in {[name |-> "main", arg |-> argv] : argv \in Argvs}
  /\ status = "main"

\* main, up to its call of RunBulk: exit code 1 on a missing argument or on
\* atoi(argv[1]) == 0, else RunBulk constructs the engine with that bulk size
main ==
  /\ status = "main"
  /\ LET argv == op.arg
         argc == Len(argv) + 1
         bulkSize == IF argc < 2 THEN 0 ELSE atoi(argv[1])
     IN IF argc < 2 \/ bulkSize = 0
        THEN /\ status' = "exit1"
             /\ UNCHANGED <<m_bulkSize, op>>
        ELSE /\ status' = "running"
             /\ m_bulkSize' = bulkSize
             /\ op' = [name |-> "init", arg |-> nullptr]
  /\ UNCHANGED <<m_blockForced, m_commands, m_subscribers, m_blockDepth,
                 snapshot, rendered, input, calls>>

\* the whole program: main, then RunBulk's objects, loop and teardown
NextMain ==
  \/ main
  \/ NextGate

SpecMain == InitMain /\ [][NextMain]_vars

\* as SpecEngine, with render steps that may throw
NextFail ==
  \E ub \in UBOutcomes, fails \in SUBSET Handles :
    \/ \E o \in Handles : ConstructOutput(o)
    \/ \E text \in CmdTexts : CallProcessCommand(text, fails, ub)
    \/ CallStartBlock(fails, ub)
    \/ CallFinishBlock(fails, ub)
    \/ Teardown(fails, ub)

SpecFail == Init /\ [][NextFail]_vars

\* ------------------------------------------------------- reading the state
Range(s) == {s[i] : i \in 1..Len(s)}
IsMarker(text) == text \in {"{", "}"}
IsRender(c) == c.call = "render"
IsUpdate(c) == c.call = "update"
IsCmd(c) == ~IsMarker(c.text)
\* the render / update calls of the last operation, in order
Renders == SelectSeq(calls, IsRender)
Updates == SelectSeq(calls, IsUpdate)
\* the non-marker commands of the input, in arrival order
Cmds == SelectSeq(input, IsCmd)
NoMarkers == \A i \in 1..Len(input) : ~IsMarker(input[i].text)

\* ---------------------------------------------------------------------- C1
\* C1: with a threshold >= 1 and an input without block markers, a batch is
\* closed exactly when the pending batch reaches the threshold: after each
\* line the pending batch is the input past the last multiple of the
\* threshold, a line renders (once per subscriber) exactly when it completes
\* a multiple, what it renders is the last `threshold` commands, and the
\* destructor renders only the 1..threshold-1 commands left over.
C1_ClosesAtThreshold ==
  (m_bulkSize >= 1 /\ NoMarkers) =>
    LET n == Len(input)
        r == n % m_bulkSize
    IN /\ op.name = "ReadLine" =>
            /\ m_commands = SubSeq(input, n - r + 1, n)
            /\ IF r = 0
               THEN /\ Len(Renders) = Len(m_subscribers)
                    /\ \A i \in 1..Len(Renders) :
                         /\ Renders[i].arg = SubSeq(input, n - m_bulkSize + 1, n)
                         /\ Len(Renders[i].arg) = m_bulkSize
               ELSE Renders = <<>>
       /\ op.name = "Teardown" =>
            /\ r = 0 => Renders = <<>>
            /\ \A i \in 1..Len(Renders) :
                 /\ Renders[i].arg = SubSeq(input, n - r + 1, n)
                 /\ Len(Renders[i].arg) \in 1..(m_bulkSize - 1)

\* two full batches of 2 went out, then the destructor flushed the fifth command
C1_Witness ==
  /\ NoMarkers /\ m_bulkSize = 2 /\ Len(input) = 5
  /\ op.name = "Teardown"
  /\ Len(Renders) = 2 /\ Len(Renders[1].arg) = 1
  /\ rendered[1] = input

\* ---------------------------------------------------------------------- C2
\* C2: no render step is ever invoked on an empty snapshot: every render call
\* an operation makes carries at least one command.
C2_NoEmptyRender ==
  \A i \in 1..Len(Renders) : Renders[i].arg # <<>>

\* ---------------------------------------------------------------------- C3
\* C3: when the input ends outside an open block, every subscriber registered
\* for the run has, once the destructor has flushed, written out exactly the
\* non-marker commands of the input, each once and in arrival order.
C3_ExactlyOnceInOrder ==
  [][(op'.name = "Teardown" /\ m_blockDepth <= 0) =>
       \A o \in Range(m_subscribers) : rendered'[o] = Cmds']_vars

\* a run with a block and a size-triggered batch, flushed at teardown to both
C3_Witness ==
  /\ op.name = "Teardown" /\ m_blockDepth = 0
  /\ ~NoMarkers /\ Len(Cmds) >= 3 /\ m_bulkSize = 2
  /\ Len(Renders) = 2
  /\ rendered[1] = Cmds /\ rendered[2] = Cmds

\* ---------------------------------------------------------------------- C4
\* C4: StartBlock closes the pending batch whatever the threshold: called with
\* k >= 1 pending commands it makes one render call per subscriber, each on
\* exactly those k commands, and leaves the pending batch empty; called with
\* none pending it makes no render call.
C4_StartBlockCloses ==
  [][op'.name = "StartBlock" =>
       /\ m_commands' = <<>>
       /\ IF m_commands = <<>>
          THEN Renders' = <<>>
          ELSE /\ Len(Renders') = Len(m_subscribers)
               /\ \A i \in 1..Len(m_subscribers) :
                    /\ Renders'[i].to = m_subscribers[i]
                    /\ Renders'[i].arg = m_commands]_vars

\* StartBlock flushed one pending command although the threshold is 3
C4_Witness ==
  /\ op.name = "StartBlock" /\ m_bulkSize = 3
  /\ Len(Renders) = 2 /\ Len(Renders[1].arg) = 1
  /\ m_commands = <<>>

\* ---------------------------------------------------------------------- C5
\* the gate's depth after the first k lines, as ConsoleInput counts it
RECURSIVE DepthAfter(_)
DepthAfter(k) ==
  IF k = 0 THEN 0
  ELSE DepthAfter(k - 1) + (IF input[k].text = "{" THEN 1
                            ELSE IF input[k].text = "}" THEN -1 ELSE 0)
\* the line that opened the outermost block last opened (0 if none)
OpenPos ==
  LET opens == {p \in 1..Len(input) : input[p].text = "{" /\ DepthAfter(p - 1) = 0}
  IN IF opens = {} THEN 0 ELSE CHOOSE p \in opens : \A q \in opens : q <= p
\* the non-marker commands read since that line
SinceOpen == SelectSeq(SubSeq(input, OpenPos + 1, Len(input)), IsCmd)

\* C5: while block-forced is true no line read inside the block renders,
\* however many commands pile up (the pending batch is all of them), and the
\* line that ends the block renders all of them as one batch, once per
\* subscriber.
C5_BlockSuppressesSizeTrigger ==
  op.name = "ReadLine" =>
    /\ (m_blockForced /\ ~(op.arg.text = "{" /\ m_blockDepth = 1)) =>
          /\ Renders = <<>>
          /\ m_commands = SinceOpen
    /\ (op.arg.text = "}" /\ m_blockDepth = 0) =>
          /\ ~m_blockForced
          /\ m_commands = <<>>
          /\ IF SinceOpen = <<>>
             THEN Renders = <<>>
             ELSE /\ Len(Renders) = Len(m_subscribers)
                  /\ \A i \in 1..Len(m_subscribers) :
                       /\ Renders[i].to = m_subscribers[i]
                       /\ Renders[i].arg = SinceOpen

\* a block of 3 commands under threshold 2 went out as one batch at its end
C5_Witness ==
  /\ op.name = "ReadLine" /\ op.arg.text = "}" /\ m_blockDepth = 0
  /\ m_bulkSize = 2
  /\ Len(Renders) = 2 /\ Len(Renders[1].arg) = 3

\* ---------------------------------------------------------------------- C6
EngineVars == <<m_blockForced, m_commands, m_subscribers, snapshot, rendered>>
MarkerFree(seq) == \A i \in 1..Len(seq) : ~IsMarker(seq[i].text)

\* C6: nested blocks are one block. A "{" starts a block only at depth 0 -> 1
\* and a "}" finishes one only at depth 1 -> 0; any other marker changes the
\* depth alone (no call reaches the engine or a subscriber); no marker is ever
\* in the pending batch, a snapshot or the output; and the "}" that closes the
\* outermost block renders everything read since its "{" as a single batch.
C6_NestedBlocksAreOne ==
  [][op'.name = "ReadLine" =>
       /\ MarkerFree(m_commands')
       /\ \A o \in Handles : MarkerFree(snapshot'[o]) /\ MarkerFree(rendered'[o])
       /\ op'.arg.text = "{" =>
            /\ m_blockDepth' = m_blockDepth + 1
            /\ IF m_blockDepth = 0
               THEN m_blockForced' /\ m_commands' = <<>>
               ELSE UNCHANGED EngineVars /\ calls' = <<>>
       /\ op'.arg.text = "}" =>
            /\ m_blockDepth' = m_blockDepth - 1
            /\ IF m_blockDepth = 1
               THEN /\ ~m_blockForced' /\ m_commands' = <<>>
                    /\ m_commands = SinceOpen'
                    /\ \A i \in 1..Len(Renders') : Renders'[i].arg = SinceOpen'
                    /\ SinceOpen' # <<>> => Len(Renders') = Len(m_subscribers)
               ELSE UNCHANGED EngineVars /\ calls' = <<>>
       /\ ~IsMarker(op'.arg.text) => UNCHANGED m_blockDepth]_vars

\* "{", cmd, "{", cmd, "}", "}": the outer "}" rendered both commands as one batch
C6_Witness ==
  /\ op.name = "ReadLine" /\ op.arg.text = "}" /\ m_blockDepth = 0
  /\ Len(input) = 6 /\ input[1].text = "{" /\ input[3].text = "{"
  /\ input[5].text = "}"
  /\ Len(Renders) >= 1 /\ Len(Renders[1].arg) = 2

\* ---------------------------------------------------------------------- C7
\* C7: unSubscribe(h) removes every entry equal to h, so the operation that
\* follows it (anything but a new subscribe) makes no update or render call
\* on h.
C7_NoCallsAfterUnsubscribe ==
  [][(/\ op.name = "unSubscribe" /\ op.arg # nullptr /\ status = "running"
      /\ op'.name # "subscribe") =>
       \A i \in 1..Len(calls') : calls'[i].to # op.arg]_vars

\* ---------------------------------------------------------------------- C8
\* C8: unSubscribe(h) of a non-null handle that is in no entry changes nothing:
\* subscriber list, pending batch and block-forced flag stay as they were and
\* the engine keeps running.
C8_UnsubscribeAbsentIsNoOp ==
  [][(/\ op'.name = "unSubscribe" /\ op'.arg # nullptr
      /\ op'.arg \notin Range(m_subscribers)) =>
       /\ m_subscribers' = m_subscribers
       /\ m_commands' = m_commands
       /\ m_blockForced' = m_blockForced
       /\ status' = "running"]_vars

\* ---------------------------------------------------------------------- C9
IsThrow(c) == c.call = "throw"
IsRenderCall(c) == c.call \in {"render", "throw"}

\* C9: when a render step throws during a closure, each subscriber entry still
\* has its render step called in that closure, the engine goes on running
\* (nothing propagates, nothing terminates), and the closure completes: the
\* pending batch is cleared and the empty batch is sent as the last update.
C9_FailureIsolated ==
  (SelectSeq(calls, IsThrow) # <<>>) =>
    /\ status \notin {"thrown", "terminated", "crashed"}
    /\ Len(SelectSeq(calls, IsRenderCall)) >= Cardinality(Range(m_subscribers))
    /\ m_commands = <<>>
    /\ calls[Len(calls)].call = "update" /\ calls[Len(calls)].arg = <<>>

\* --------------------------------------------------------------------- C10
\* one notify: the update calls it makes, content c to each entry in list order
Pass(subs, c) == [i \in 1..Len(subs) |-> [call |-> "update", to |-> subs[i], arg |-> c]]
Others(subs, h) == SelectSeq(subs, LAMBDA x : x # h)

\* every notify of an operation hands the pending batch of that moment to each
\* entry of the subscriber list, in list order, and each subscriber then holds
\* its own copy of it
C10_NotifyDelivers ==
  [][(op'.name \in {"ProcessCommand", "StartBlock", "FinishBlock"} /\ status' = "running") =>
       LET first == IF op'.name = "ProcessCommand"
                    THEN Append(m_commands, op'.arg) ELSE <<>>
           closed == op'.name = "ProcessCommand" /\ m_commands' = <<>>
       IN /\ Updates' = Pass(m_subscribers, first) \o
                        (IF closed THEN Pass(m_subscribers, <<>>) ELSE <<>>)
          /\ \A o \in Range(m_subscribers) : snapshot'[o] = m_commands']_vars

\* unSubscribe(h) keeps the other entries, in their order
C10_OrderKept ==
  [][(op'.name = "unSubscribe" /\ op'.arg # nullptr /\ status' = "running") =>
       Others(m_subscribers', op'.arg) = Others(m_subscribers, op'.arg)]_vars

\* C10: every notify delivers the current pending batch, as a copy, to every
\* subscriber in registration order, and that order survives the unSubscribe
\* of other handles.
C10_SameContentInOrder == C10_NotifyDelivers /\ C10_OrderKept

\* --------------------------------------------------------------------- C11
\* C11: the destructor, run with block-forced false and a non-empty pending
\* batch, makes one render call per subscriber, each on that trailing batch;
\* run with block-forced true it makes no call at all and nothing more is
\* written out: the pending commands are dropped.
C11_TeardownFlushPolicy ==
  [][op'.name = "Teardown" =>
       IF m_blockForced
       THEN calls' = <<>> /\ rendered' = rendered
       ELSE IF m_commands = <<>>
            THEN Renders' = <<>>
            ELSE /\ Len(Renders') = Len(m_subscribers)
                 /\ \A i \in 1..Len(m_subscribers) :
                      /\ Renders'[i].to = m_subscribers[i]
                      /\ Renders'[i].arg = m_commands]_vars

\* torn down inside a block: two pending commands, no call made, nothing written
C11_Witness ==
  /\ op.name = "Teardown" /\ m_blockForced
  /\ Len(m_commands) = 2 /\ calls = <<>>
  /\ rendered[1] = <<>> /\ snapshot[1] = m_commands /\ snapshot[2] = m_commands

\* --------------------------------------------------------------------- C12
\* C12: after the destructor's unregistration loop the subscriber list is
\* empty and the loop has read no position outside the current list, whatever
\* the list held (any number of entries, with or without duplicates).  Stated
\* for a teardown with nothing to flush, so that only the loop is at work: the
\* destructor completes and leaves no subscriber.
C12_TeardownUnregistersAll ==
  [][(op'.name = "Teardown" /\ (m_blockForced \/ m_commands = <<>>)) =>
       (status' = "destroyed" /\ m_subscribers' = <<>>)]_vars

\* --------------------------------------------------------------------- C13
\* C13: main rejects every bulk size <= 0 before the engine starts: whenever
\* the process has got past main's checks (it has not exited with code 1), the
\* engine's bulk size is at least 1.
C13_NonPositiveBulkRejected ==
  status \notin {"main", "exit1"} => m_bulkSize >= 1

\* --------------------------------------------------------------------- C14
\* C14: ConsoleInput's block-depth counter starts at 0 and is never negative,
\* whatever lines are read, "}" lines with no "{" before them included.
C14_DepthNonNegative ==
  m_blockDepth >= 0

\* --------------------------------------------------------------------- C15
\* C15: every render call of a closure acts on a snapshot equal to the batch
\* being closed (the engine's pending batch at that moment), whenever the
\* rendering subscriber was subscribed, unsubscribed or subscribed again.
C15_RenderedSnapshotIsPending ==
  [][\A i \in 1..Len(Renders') :
       Renders'[i].arg =
         IF op'.name = "ProcessCommand" \/ (op'.name = "ReadLine" /\ IsCmd(op'.arg))
         THEN Append(m_commands, op'.arg)
         ELSE m_commands]_vars

\* --------------------------------------------------------------------- C16
\* a step in which DumpBatch runs on an empty pending batch: StartBlock and
\* FinishBlock call it always, the destructor when no block is open
EmptyClosure ==
  /\ m_commands = <<>>
  /\ \/ op'.name \in {"StartBlock", "FinishBlock"}
     \/ op'.name = "Teardown" /\ ~m_blockForced

\* C16 as stated: on an empty pending batch the closure does nothing at all:
\* no render call, no other call to a subscriber, no state changed.
C16_EmptyClosureIsNoOp ==
  [][EmptyClosure =>
       /\ calls' = <<>>
       /\ m_commands' = m_commands /\ snapshot' = snapshot /\ rendered' = rendered
       /\ op'.name # "Teardown" => m_subscribers' = m_subscribers]_vars

\* C16, amended: on an empty pending batch the closure makes no render call and
\* changes neither the batch nor the subscriber list nor anything written out,
\* but it still sends one update carrying the empty batch to every entry of
\* the subscriber list, in order.
C16_EmptyClosureOnlyUpdates ==
  [][EmptyClosure =>
       /\ calls' = Pass(m_subscribers, <<>>)
       /\ m_commands' = <<>> /\ rendered' = rendered
       /\ \A o \in Range(m_subscribers) : snapshot'[o] = <<>>
       /\ op'.name # "Teardown" =>
            (m_subscribers' = m_subscribers /\ status' = "running")]_vars

\* StartBlock on an empty batch with two subscribers: two updates, no render
C16_Witness ==
  /\ op.name = "StartBlock" /\ status = "running"
  /\ Len(m_subscribers) = 2
  /\ calls = Pass(m_subscribers, <<>>)

\* --------------------------------------------------------------------- C17
\* the number of entries of a subscriber list equal to h / of calls made to h
Count(subs, h) == Len(SelectSeq(subs, LAMBDA x : x = h))
CountTo(cs, h) == Len(SelectSeq(cs, LAMBDA c : c.to = h))

\* C17: subscribe(nullptr) leaves the subscriber list as it is; subscribe(h)
\* appends one entry at the end, whether or not h is already in the list; and
\* in every operation that completes, a handle with n entries gets n update
\* calls from each notify and n render calls from a closure of a non-empty
\* batch (none from any other).
C17_DuplicatesDeliveredIndependently ==
  [][/\ op'.name = "subscribe" =>
          m_subscribers' = IF op'.arg = nullptr THEN m_subscribers
                           ELSE Append(m_subscribers, op'.arg)
     /\ (op'.name \in {"ProcessCommand", "StartBlock", "FinishBlock"}
         /\ status' = "running") =>
          LET closed == IF op'.name = "ProcessCommand"
                        THEN m_commands' = <<>> ELSE m_commands # <<>>
              notifies == IF op'.name = "ProcessCommand" /\ closed THEN 2 ELSE 1
          IN \A h \in Handles :
               /\ CountTo(Updates', h) = notifies * Count(m_subscribers, h)
               /\ CountTo(Renders', h) =
                    IF closed THEN Count(m_subscribers, h) ELSE 0]_vars

\* one handle subscribed twice, one command closing a batch of size 1: two
\* updates with the command, two renders, two updates with the empty batch
C17_Witness ==
  /\ op.name = "ProcessCommand" /\ status = "running"
  /\ m_subscribers = <<1, 1>>
  /\ CountTo(Renders, 1) = 2 /\ CountTo(Updates, 1) = 4
  /\ Len(rendered[1]) = 2

\* --------------------------------------------------------------------- C18
\* C18: ProcessCommand, StartBlock and FinishBlock (with the notifies and the
\* closure they run) leave the subscriber list as it is, members and order;
\* subscribe and unSubscribe leave the pending batch and the block-forced flag
\* as they are and make no update or render call, so no snapshot and no output
\* changes either.
C18_SubscriberSetFrame ==
  [][/\ op'.name \in {"ProcessCommand", "StartBlock", "FinishBlock", "ReadLine"} =>
          m_subscribers' = m_subscribers
     /\ op'.name \in {"subscribe", "unSubscribe"} =>
          /\ m_commands' = m_commands /\ m_blockForced' = m_blockForced
          /\ calls' = <<>>
          /\ snapshot' = snapshot /\ rendered' = rendered]_vars

\* unSubscribe of the first of two subscribers while a command is pending
C18_Witness ==
  /\ op.name = "unSubscribe" /\ op.arg = 1 /\ status = "running"
  /\ m_subscribers = <<2>>
  /\ Len(m_commands) = 1 /\ snapshot[1] = m_commands
  /\ calls = <<>>

\* --------------------------------------------------------------------- C19
\* C19: with the engine driven only through ConsoleInput, after every line
\* (unmatched "}" lines included) the block-forced flag is true exactly when
\* the depth is at least 1; the lines that signal StartBlock find the flag
\* false and set it, the lines that signal FinishBlock find it true and reset
\* it, and nothing else changes it: the two signals alternate, StartBlock
\* first.
C19_FlagTracksDepth ==
  [][LET line == op'.name = "ReadLine"
         start == line /\ op'.arg.text = "{" /\ m_blockDepth = 0
         finish == line /\ op'.arg.text = "}" /\ m_blockDepth = 1
     IN /\ m_blockForced' <=> m_blockDepth' >= 1
        /\ start => (~m_blockForced /\ m_blockForced')
        /\ finish => (m_blockForced /\ ~m_blockForced')
        /\ (~start /\ ~finish) => m_blockForced' = m_blockForced]_vars

\* an unmatched "}" first, then two "{" (the second one opens the block), a
\* command held back in it
C19_Witness ==
  /\ Len(input) = 4 /\ input[1].text = "}" /\ input[2].text = "{"
  /\ op.name = "ReadLine" /\ IsCmd(op.arg)
  /\ m_blockDepth = 1 /\ m_blockForced
  /\ Len(m_commands) = 1

\* --------------------------------------------------------------------- C20
\* C20: with a bulk size of at least 1, once an operation has completed with
\* the block-forced flag false the pending batch holds fewer commands than the
\* bulk size; the batch reaches or exceeds the bulk size only while the flag
\* is true.
C20_PendingBelowThreshold ==
  (status = "running" /\ m_bulkSize >= 1 /\ ~m_blockForced) =>
    Len(m_commands) < m_bulkSize

\* a block closed by FinishBlock after it had grown past the bulk size
C20_Witness ==
  /\ op.name = "FinishBlock" /\ status = "running"
  /\ m_bulkSize >= 1 /\ ~m_blockForced /\ m_commands = <<>>
  /\ Renders # <<>> /\ Len(Renders[1].arg) > m_bulkSize

====
